---- MODULE Spec2Model ----
(***************************************************************************)
(* Model of talos-node-discovery: the address enumerator of package probe  *)
(* (IpsFromCIDR, IpsFromCidrs, nextIP) and the batched prober              *)
(* dialTalosHosts of main.go.                                              *)
(*                                                                         *)
(* Addresses are byte sequences, as net.IP is.  The model keeps the shape  *)
(* of the Go net package (4-byte and 16-byte forms, the v4-in-v6 prefix,   *)
(* CIDR masks) on narrower addresses: an IPv4 address has AddrBytes bytes  *)
(* of ByteBits bits each, an IPv6 address has the v4-in-v6 prefix in front *)
(* of that.                                                                *)
(***************************************************************************)
EXTENDS Integers, Sequences, FiniteSets, TLC

VARIABLES
    fn,         \* which enumerator main calls: "IpsFromCIDR" or "IpsFromCidrs"
    cidrs,      \* the enumerator's argument, split at commas
    ci,         \* IpsFromCidrs: index in cidrsList of the range being expanded
    ipnet,      \* the parsed *net.IPNet of the current range
    ip,         \* the loop variable ip of the enumeration loop
    ips,        \* the list ips the enumeration loop appends to
    allIps,     \* IpsFromCidrs: the accumulated output
    candidates, \* what the enumerator returned (the caller's ips)
    pc,         \* position of the main goroutine
    batchSize,  \* dialTalosHosts: the batchSize parameter as passed
    bs,         \* dialTalosHosts: batchSize after the default is applied
    oracle,     \* the network: which address strings accept a connection
    i,          \* dialTalosHosts: start index (0-based) of the current batch
    j,          \* dialTalosHosts: how many goroutines of the batch are launched
    wg,         \* the WaitGroup counter of the current batch
    mu,         \* the mutex: 0 when free, else the position of its holder
    talosHosts, \* the shared result list
    w,          \* state of the goroutine of each position of ips
    loc,        \* per goroutine: the value of talosHosts it read for append
    dials,      \* per position: how many times DialAddress was called
    ret,        \* what dialTalosHosts returned
    members,    \* main: what talos.GetMembers returned
    newMemberIps, \* main: the reachable hosts that are no member yet
    joins,      \* the talos.WorkerJoin calls made so far, with their outcome
    again       \* the reconciliation applied to its own output

vars == <<fn, cidrs, ci, ipnet, ip, ips, allIps, candidates, pc, batchSize, bs,
          oracle, i, j, wg, mu, talosHosts, w, loc, dials, ret,
          members, newMemberIps, joins, again>>

enumVars == <<fn, cidrs, ci, ipnet, ip, ips, allIps, candidates>>
dialVars == <<batchSize, bs, oracle, i, j, wg, mu, talosHosts, w, loc, dials, ret>>
mainVars == <<members, newMemberIps, joins, again>>

----------------------------------------------------------------------------
(* Bounds of the model *)

\* bytes of an IPv4 address (net.IPv4len is 4)
AddrBytes == 2
\* bits of a byte (8 in Go)
ByteBits == 2
\* ranges given to IpsFromCidrs in lists, and to the prober, have at most
\* 2^MaxSmallHostBits addresses
MaxSmallHostBits == 2
\* longest comma-joined list of ranges
MaxCidrs == 2
\* longest address list handed to dialTalosHosts
MaxIps == 3
\* largest explicit batch size
MaxBatch == 3
\* the enumeration loop of a range that never ends is followed this many
\* iterations past the size of the address space
EnumSlack == 2

----------------------------------------------------------------------------
(* net.IP, net.IPMask, net.IPNet *)

RECURSIVE Pow2(_)
Pow2(n) == IF n = 0 THEN 1 ELSE 2 * Pow2(n - 1)

ByteMod == Pow2(ByteBits)
ByteMax == ByteMod - 1
Byte == 0..ByteMax

IPv4len == AddrBytes
\* net.v4InV6Prefix is ten zero bytes followed by 0xff 0xff
v4InV6Prefix == <<0, ByteMax>>
IPv6len == IPv4len + Len(v4InV6Prefix)

V4Bits == IPv4len * ByteBits
V6Bits == IPv6len * ByteBits

\* a nil slice
Nil == <<>>

Min(a, b) == IF a < b THEN a ELSE b
Max(a, b) == IF a > b THEN a ELSE b

\* net.CIDRMask(ones, bits): a mask is kept as the number of leading one bits
\* of each of its bytes
CIDRMask(ones, bits) ==
    [k \in 1..(bits \div ByteBits) |->
        Min(ByteBits, Max(0, ones - (k - 1) * ByteBits))]

\* x & m for a mask byte with m leading ones
AndMask(x, m) == (x \div Pow2(ByteBits - m)) * Pow2(ByteBits - m)

\* allFF(mask[:12])
allFF(m) == \A k \in 1..Len(m) : m[k] = ByteBits

HasV4Prefix(a) ==
    /\ Len(a) = IPv6len
    /\ SubSeq(a, 1, Len(v4InV6Prefix)) = v4InV6Prefix

\* IP.To4
To4(a) ==
    IF Len(a) = IPv4len THEN a
    ELSE IF HasV4Prefix(a) THEN SubSeq(a, Len(v4InV6Prefix) + 1, IPv6len)
    ELSE Nil

\* IP.Mask
Mask(a, mask) ==
    LET m1 == IF Len(mask) = IPv6len /\ Len(a) = IPv4len
                 /\ allFF(SubSeq(mask, 1, Len(v4InV6Prefix)))
              THEN SubSeq(mask, Len(v4InV6Prefix) + 1, IPv6len) ELSE mask
        a1 == IF Len(m1) = IPv4len /\ HasV4Prefix(a)
              THEN SubSeq(a, Len(v4InV6Prefix) + 1, IPv6len) ELSE a
    IN  IF Len(a1) # Len(m1) THEN Nil
        ELSE [k \in 1..Len(a1) |-> AndMask(a1[k], m1[k])]

\* IPNet.Contains, with networkNumberAndMask
Contains(net, a) ==
    LET n4 == To4(net.IP)
        nn == IF n4 # Nil THEN n4 ELSE net.IP
        m  == IF Len(net.Mask) = IPv6len /\ Len(nn) = IPv4len
              THEN SubSeq(net.Mask, Len(v4InV6Prefix) + 1, IPv6len) ELSE net.Mask
        x4 == To4(a)
        x  == IF x4 # Nil THEN x4 ELSE a
    IN  /\ Len(nn) = Len(m)
        /\ Len(x) = Len(nn)
        /\ \A k \in 1..Len(x) : AndMask(nn[k], m[k]) = AndMask(x[k], m[k])

\* IP.String: dotted notation when To4 is not nil, else the IPv6 text
String(a) ==
    IF To4(a) # Nil THEN [fam |-> "v4", b |-> To4(a)]
    ELSE [fam |-> "v6", b |-> a]

\* A range in text form: fam "v4" or "v6" with the address bytes and the
\* prefix length after the slash, or fam "bad" for text that is no CIDR.
BitLen(c) == IF c.fam = "v4" THEN V4Bits ELSE V6Bits

\* net.ParseCIDR
ParseCIDR(c) ==
    IF c.fam = "bad" \/ c.n < 0 \/ c.n > BitLen(c)
    THEN [err |-> TRUE, IP |-> Nil, Mask |-> Nil]
    ELSE LET m == CIDRMask(c.n, BitLen(c))
             addr16 == IF c.fam = "v4" THEN v4InV6Prefix \o c.ip ELSE c.ip
         IN  [err |-> FALSE, IP |-> Mask(addr16, m), Mask |-> m]

----------------------------------------------------------------------------
(* nextIP *)

RECURSIVE nextIPFrom(_, _)
nextIPFrom(a, k) ==
    IF k = 0 THEN a
    ELSE LET a1 == [a EXCEPT ![k] = (a[k] + 1) % ByteMod]
         IN  IF a1[k] # 0 THEN a1 ELSE nextIPFrom(a1, k - 1)

nextIP(a) == nextIPFrom(a, Len(a))

----------------------------------------------------------------------------
(* Inputs *)

V4Addrs == [1..IPv4len -> Byte]
PrefixBits == Len(v4InV6Prefix) * ByteBits

\* the address has the host bits of an n-bit prefix all zero or all one
EdgeHost(a, n) ==
    LET m == CIDRMask(n, Len(a) * ByteBits)
    IN  \/ \A k \in 1..Len(a) : a[k] = AndMask(a[k], m[k])
        \/ \A k \in 1..Len(a) :
              a[k] = AndMask(a[k], m[k]) + Pow2(ByteBits - m[k]) - 1

BadCidr == [fam |-> "bad", ip |-> Nil, n |-> 0]

V6Tops == {v4InV6Prefix, [k \in 1..Len(v4InV6Prefix) |-> 0],
           [k \in 1..Len(v4InV6Prefix) |-> ByteMax]}

\* the ranges the enumerator is given one at a time: every IPv4 prefix
\* length (and one past the width, which does not parse), IPv6 ranges no
\* larger than the IPv4 space, and text that is no range
EnumCidrs ==
    {[fam |-> "v4", ip |-> a, n |-> n] :
        a \in V4Addrs, n \in 0..V4Bits} 
    \cup {[fam |-> "v6", ip |-> t \o a, n |-> n] :
        t \in V6Tops, a \in V4Addrs, n \in PrefixBits..V6Bits}
    \cup {[fam |-> "v4", ip |-> [k \in 1..IPv4len |-> 0], n |-> V4Bits + 1],
          [fam |-> "v6", ip |-> [k \in 1..IPv6len |-> 0], n |-> V6Bits + 1],
          BadCidr}

EdgeCidrs == {c \in EnumCidrs : c.fam = "bad" \/ c.n > BitLen(c) \/ EdgeHost(c.ip, c.n)}

\* the ranges given in comma-joined lists: the IPv4 ranges of at most
\* 2^MaxSmallHostBits addresses that start at the zero address (they overlap),
\* one IPv6 range of two addresses, and text that is no range
SmallCidrs ==
    {[fam |-> "v4", ip |-> [k \in 1..IPv4len |-> 0], n |-> n] :
        n \in (V4Bits - MaxSmallHostBits)..V4Bits}
    \cup {[fam |-> "v6", ip |-> [k \in 1..IPv6len |-> 0], n |-> V6Bits - 1],
          BadCidr}

SeqsUpTo(S, n) == UNION {[1..k -> S] : k \in 1..n}

CidrLists == SeqsUpTo(SmallCidrs, MaxCidrs)

----------------------------------------------------------------------------
(* The enumerator: IpsFromCIDR and IpsFromCidrs *)

\* the enumeration loop is followed at most this many iterations
EnumCap == Pow2(V4Bits) + EnumSlack

\* fault variant of Filtered: only the first address is removed
FilteredFirstOnly(net, l) ==
    IF Len(l) > 2 /\ To4(net.IP) # Nil THEN SubSeq(l, 2, Len(l)) ELSE l

\* fault variant of Filtered: >= in place of >
FilteredFromTwo(net, l) ==
    IF Len(l) >= 2 /\ To4(net.IP) # Nil THEN SubSeq(l, 2, Len(l) - 1) ELSE l

\* remove network and broadcast if IPv4 and length>2
Filtered(net, l) ==
    IF Len(l) > 2 /\ To4(net.IP) # Nil THEN SubSeq(l, 2, Len(l) - 1) ELSE l

\* fault variant of ErrorResult: the addresses collected before the range
\* that does not parse are returned with the error
ErrorResultPartial == allIps

\* return nil, err
ErrorResult == Nil

\* the text IpsFromCIDR hands to net.ParseCIDR is the whole argument: with a
\* comma in it, it is no CIDR
RangeText ==
    IF fn = "IpsFromCIDR" /\ Len(cidrs) # 1 THEN BadCidr ELSE cidrs[ci]

\* _, ipnet, err := net.ParseCIDR(cidr), and the loop's initialisation
ParseRange ==
    /\ pc = "parse"
    /\ LET r == ParseCIDR(RangeText)
       IN  IF r.err
           THEN /\ candidates' = ErrorResult
                /\ pc' = "enumErr"
                /\ UNCHANGED <<ipnet, ip, ips>>
           ELSE /\ ipnet' = r
                /\ ip' = Mask(r.IP, r.Mask)
                /\ ips' = <<>>
                /\ pc' = "loop"
                /\ UNCHANGED candidates
    /\ UNCHANGED <<fn, cidrs, ci, allIps>>
    /\ UNCHANGED dialVars
    /\ UNCHANGED mainVars

\* one iteration: ipnet.Contains(ip); ips = append(ips, ip.String()); nextIP(ip)
LoopStep ==
    /\ pc = "loop"
    /\ Contains(ipnet, ip)
    /\ Len(ips) < EnumCap
    /\ ips' = Append(ips, String(ip))
    /\ ip' = nextIP(ip)
    /\ UNCHANGED <<fn, cidrs, ci, ipnet, allIps, candidates, pc>>
    /\ UNCHANGED dialVars
    /\ UNCHANGED mainVars

\* IpsFromCIDR after the loop
IpsFromCIDRReturn ==
    /\ pc = "loop"
    /\ fn = "IpsFromCIDR"
    /\ ~Contains(ipnet, ip)
    /\ candidates' = Filtered(ipnet, ips)
    /\ pc' = "enumDone"
    /\ UNCHANGED <<fn, cidrs, ci, ipnet, ip, ips, allIps>>
    /\ UNCHANGED dialVars
    /\ UNCHANGED mainVars

\* IpsFromCidrs after the loop of one range: append to allIps, then the next
\* range, or return allIps after the last
IpsFromCidrsNext ==
    /\ pc = "loop"
    /\ fn = "IpsFromCidrs"
    /\ ~Contains(ipnet, ip)
    /\ allIps' = allIps \o Filtered(ipnet, ips)
    /\ IF ci < Len(cidrs)
       THEN /\ ci' = ci + 1
            /\ pc' = "parse"
            /\ UNCHANGED candidates
       ELSE /\ candidates' = allIps'
            /\ pc' = "enumDone"
            /\ UNCHANGED ci
    /\ UNCHANGED <<fn, cidrs, ipnet, ip, ips>>
    /\ UNCHANGED dialVars
    /\ UNCHANGED mainVars

EnumNext == ParseRange \/ LoopStep \/ IpsFromCIDRReturn \/ IpsFromCidrsNext

NoNet == [err |-> TRUE, IP |-> Nil, Mask |-> Nil]

DialIdle ==
    /\ batchSize = 0 /\ bs = 0 /\ oracle = <<>> /\ i = 0 /\ j = 0 /\ wg = 0
    /\ mu = 0 /\ talosHosts = <<>> /\ w = <<>> /\ loc = <<>> /\ dials = <<>>
    /\ ret = [done |-> FALSE, hosts |-> Nil, err |-> "none"]

\* main before talos.GetMembers
MainIdle ==
    /\ members = [fetched |-> FALSE, err |-> FALSE, list |-> <<>>]
    /\ newMemberIps = Nil
    /\ joins = <<>>
    /\ again = [done |-> FALSE, out |-> Nil]

EnumInit ==
    /\ ci = 1 /\ ipnet = NoNet /\ ip = Nil /\ ips = <<>> /\ allIps = <<>>
    /\ candidates = Nil /\ pc = "parse"

\* the enumerator alone, on every range of EdgeCidrs and every list of
\* CidrLists
InitEnum ==
    /\ fn \in {"IpsFromCIDR", "IpsFromCidrs"}
    /\ cidrs \in {<<c>> : c \in EdgeCidrs} \cup CidrLists
    /\ EnumInit
    /\ DialIdle
    /\ MainIdle

SpecEnum == InitEnum /\ [][EnumNext]_vars

----------------------------------------------------------------------------
(* The prober: dialTalosHosts(ips, batchSize), called by main with the     *)
(* enumerator's result as ips                                              *)

\* if batchSize == -1 { batchSize = 100 }
DefaultSentinel == -1
DefaultBatchSize == 100

BatchSizes == {-2, DefaultSentinel, 0, DefaultBatchSize} \cup (1..MaxBatch)

Range(s) == {s[k] : k \in 1..Len(s)}

NumIps == Len(candidates)

\* fault variant of InvalidBatchSize: < in place of <=
InvalidBatchSizeLt(b) == b < 0 /\ b # DefaultSentinel

\* batchSize <= 0 && batchSize != -1
InvalidBatchSize(b) == b <= 0 /\ b # DefaultSentinel

\* fault variant of EffectiveBatchSize: the sentinel is not replaced
EffectiveBatchSizeKept(b) == b

EffectiveBatchSize(b) == IF b = DefaultSentinel THEN DefaultBatchSize ELSE b

\* fault variant of BatchLoopCond: only full batches are processed
BatchLoopCondFull(i0) == i0 + bs <= NumIps

\* the loop condition of the batch loop: i < len(ips)
BatchLoopCond(i0) == i0 < NumIps

\* fault variant of BatchEnd: the batch is the whole rest of the list
BatchEndAll(i0) == NumIps

\* end := i + batchSize; if end > len(ips) { end = len(ips) }
BatchEnd(i0) == IF i0 + bs > NumIps THEN NumIps ELSE i0 + bs

\* fault variant of WaitDone: the barrier does not wait
WaitDoneNever == TRUE

\* wg.Wait() returns when the counter is zero
WaitDone == wg = 0

\* fault variant of MuFree: the lock is missing
MuFreeAlways == TRUE

\* mu.Lock() succeeds when the mutex is free
MuFree == mu = 0

\* fault variant of DialOk: the error test inverted (err == nil returns)
DialOkInverted(p) == ~oracle[candidates[p]]

\* err := probe.DialAddress(...): nil when the address accepts the connection
DialOk(p) == oracle[candidates[p]]

\* fault variant of Appended: the goroutine appends the loop variable of the
\* launching loop, which by then names the last address of the batch
AppendedLoopVar(p) ==
    Append(loc[p], candidates[IF i + bs > NumIps THEN NumIps ELSE i + bs])

\* append(talosHosts, ip), on the value of talosHosts the goroutine read; ip
\* is the goroutine's own argument
Appended(p) == Append(loc[p], candidates[p])

\* fault variant of ReturnValue: a failed attempt is reported as the call's
\* error
ReturnValueErr ==
    [done |-> TRUE, hosts |-> talosHosts,
     err |-> IF \E p \in DOMAIN w : ~oracle[candidates[p]] THEN "dial" ELSE "nil"]

\* return talosHosts, nil
ReturnValue == [done |-> TRUE, hosts |-> talosHosts, err |-> "nil"]

\* main: talosHostsInCidr, err := dialTalosHosts(ips, batchSizeInt)
CallDial ==
    /\ pc = "enumDone"
    /\ NumIps <= MaxIps
    /\ \E b \in BatchSizes : batchSize' = b
    /\ \E o \in [Range(candidates) -> BOOLEAN] : oracle' = o
    /\ w' = [p \in 1..NumIps |-> "idle"]
    /\ loc' = [p \in 1..NumIps |-> <<>>]
    /\ dials' = [p \in 1..NumIps |-> 0]
    /\ pc' = "check"
    /\ UNCHANGED <<bs, i, j, wg, mu, talosHosts, ret>>
    /\ UNCHANGED enumVars
    /\ UNCHANGED mainVars

\* lines 20-28: the batch size check, the default, the empty result list
CheckBatchSize ==
    /\ pc = "check"
    /\ IF InvalidBatchSize(batchSize)
       THEN /\ pc' = "fatal"
            /\ UNCHANGED <<bs, talosHosts, i>>
       ELSE /\ bs' = EffectiveBatchSize(batchSize)
            /\ talosHosts' = <<>>
            /\ i' = 0
            /\ pc' = "for"
    /\ UNCHANGED <<batchSize, oracle, j, wg, mu, w, loc, dials, ret>>
    /\ UNCHANGED enumVars
    /\ UNCHANGED mainVars

\* lines 33-41: the head of one batch, wg.Add(len(batch))
BatchStart ==
    /\ pc = "for"
    /\ BatchLoopCond(i)
    /\ wg' = BatchEnd(i) - i
    /\ j' = 0
    /\ pc' = IF BatchEnd(i) - i > 0 THEN "spawn" ELSE "wait"
    /\ UNCHANGED <<batchSize, bs, oracle, i, mu, talosHosts, w, loc, dials, ret>>
    /\ UNCHANGED enumVars
    /\ UNCHANGED mainVars

\* lines 45-57: go func(ip string) {...}(ip) for the next address of the batch
Spawn ==
    /\ pc = "spawn"
    /\ j < BatchEnd(i) - i
    /\ w' = [w EXCEPT ![i + j + 1] = "go"]
    /\ j' = j + 1
    /\ pc' = IF j + 1 < BatchEnd(i) - i THEN "spawn" ELSE "wait"
    /\ UNCHANGED <<batchSize, bs, oracle, i, wg, mu, talosHosts, loc, dials, ret>>
    /\ UNCHANGED enumVars
    /\ UNCHANGED mainVars

\* line 59 and the loop's increment: wg.Wait(); i += batchSize
Wait ==
    /\ pc = "wait"
    /\ WaitDone
    /\ i' = i + bs
    /\ pc' = "for"
    /\ UNCHANGED <<batchSize, bs, oracle, j, wg, mu, talosHosts, w, loc, dials, ret>>
    /\ UNCHANGED enumVars
    /\ UNCHANGED mainVars

\* line 62
Return ==
    /\ pc = "for"
    /\ ~BatchLoopCond(i)
    /\ ret' = ReturnValue
    /\ pc' = "returned"
    /\ UNCHANGED <<batchSize, bs, oracle, i, j, wg, mu, talosHosts, w, loc, dials>>
    /\ UNCHANGED enumVars
    /\ UNCHANGED mainVars

\* the goroutine of position p calls probe.DialAddress
Dial(p) ==
    /\ w[p] = "go"
    /\ w' = [w EXCEPT ![p] = "dialing"]
    /\ dials' = [dials EXCEPT ![p] = @ + 1]
    /\ UNCHANGED <<batchSize, bs, oracle, i, j, wg, mu, talosHosts, loc, ret, pc>>
    /\ UNCHANGED enumVars
    /\ UNCHANGED mainVars

\* DialAddress returns: err != nil leads to return, else on to mu.Lock()
DialReturn(p) ==
    /\ w[p] = "dialing"
    /\ w' = [w EXCEPT ![p] = IF DialOk(p) THEN "connected" ELSE "exit"]
    /\ UNCHANGED <<batchSize, bs, oracle, i, j, wg, mu, talosHosts, loc, dials, ret, pc>>
    /\ UNCHANGED enumVars
    /\ UNCHANGED mainVars

\* mu.Lock()
Lock(p) ==
    /\ w[p] = "connected"
    /\ MuFree
    /\ mu' = p
    /\ w' = [w EXCEPT ![p] = "locked"]
    /\ UNCHANGED <<batchSize, bs, oracle, i, j, wg, talosHosts, loc, dials, ret, pc>>
    /\ UNCHANGED enumVars
    /\ UNCHANGED mainVars

\* append(talosHosts, ip) reads the slice ...
AppendRead(p) ==
    /\ w[p] = "locked"
    /\ loc' = [loc EXCEPT ![p] = talosHosts]
    /\ w' = [w EXCEPT ![p] = "read"]
    /\ UNCHANGED <<batchSize, bs, oracle, i, j, wg, mu, talosHosts, dials, ret, pc>>
    /\ UNCHANGED enumVars
    /\ UNCHANGED mainVars

\* ... and talosHosts = stores the extended slice
AppendWrite(p) ==
    /\ w[p] = "read"
    /\ talosHosts' = Appended(p)
    /\ w' = [w EXCEPT ![p] = "written"]
    /\ UNCHANGED <<batchSize, bs, oracle, i, j, wg, mu, loc, dials, ret, pc>>
    /\ UNCHANGED enumVars
    /\ UNCHANGED mainVars

\* mu.Unlock()
Unlock(p) ==
    /\ w[p] = "written"
    /\ mu' = 0
    /\ w' = [w EXCEPT ![p] = "exit"]
    /\ UNCHANGED <<batchSize, bs, oracle, i, j, wg, talosHosts, loc, dials, ret, pc>>
    /\ UNCHANGED enumVars
    /\ UNCHANGED mainVars

\* fault variant of WgAfterDone: wg.Done() is not deferred but called after
\* mu.Unlock(), so the return on a failed dial skips it
WgAfterDoneIfOk(p) == IF DialOk(p) THEN wg - 1 ELSE wg

\* defer wg.Done(): it runs on both ways out of the goroutine
WgAfterDone(p) == wg - 1

\* the deferred wg.Done()
Done(p) ==
    /\ w[p] = "exit"
    /\ wg' = WgAfterDone(p)
    /\ w' = [w EXCEPT ![p] = "done"]
    /\ UNCHANGED <<batchSize, bs, oracle, i, j, mu, talosHosts, loc, dials, ret, pc>>
    /\ UNCHANGED enumVars
    /\ UNCHANGED mainVars

DialNext ==
    \/ CallDial \/ CheckBatchSize \/ BatchStart \/ Spawn \/ Wait \/ Return
    \/ \E p \in DOMAIN w : Dial(p)
    \/ \E p \in DOMAIN w : DialReturn(p)
    \/ \E p \in DOMAIN w : Lock(p)
    \/ \E p \in DOMAIN w : AppendRead(p)
    \/ \E p \in DOMAIN w : AppendWrite(p)
    \/ \E p \in DOMAIN w : Unlock(p)
    \/ \E p \in DOMAIN w : Done(p)

\* main with either enumerator, on the lists of CidrLists
Init ==
    /\ fn \in {"IpsFromCIDR", "IpsFromCidrs"}
    /\ cidrs \in CidrLists
    /\ EnumInit
    /\ DialIdle
    /\ MainIdle

Next == EnumNext \/ DialNext

Spec == Init /\ [][Next]_vars

----------------------------------------------------------------------------
(* Properties of the prober *)

\* dialTalosHosts has been called
Called == pc \in {"check", "for", "spawn", "wait", "returned", "fatal"}

\* the attempts started and not finished: goroutines launched whose deferred
\* wg.Done() has not run (the DialAddress calls in progress are among them)
Outstanding == {p \in DOMAIN w : w[p] \notin {"idle", "done"}}
InFlight == {p \in DOMAIN w : w[p] = "dialing"}

\* 0-based number of the batch a position belongs to
BatchOf(p) == (p - 1) \div bs

RECURSIVE Count(_, _)
Count(a, s) ==
    IF s = <<>> THEN 0
    ELSE (IF s[1] = a THEN 1 ELSE 0) + Count(a, Tail(s))

NoDup(s) == \A k, l \in 1..Len(s) : k # l => s[k] # s[l]

\* C1: for every positive batch size b, at no time are more than b probe
\* attempts started and not yet finished.
C1_OutstandingAtMostBatchSize ==
    batchSize > 0 =>
        /\ Cardinality(Outstanding) <= batchSize
        /\ Cardinality(InFlight) <= batchSize

\* C1 witness: a full batch of at least two attempts is in flight while
\* further addresses wait for a later batch.
C1_Witness ==
    /\ batchSize >= 2
    /\ NumIps > batchSize
    /\ Cardinality(InFlight) = batchSize

\* C2: batches are consecutive slices of the input in input order, and an
\* attempt of a later batch starts only after every attempt of every earlier
\* batch has finished; attempts of two batches are never in flight together.
C2_BatchesSequential ==
    (Called /\ pc \notin {"check", "fatal"}) =>
        /\ i % bs = 0
        /\ \A p \in Outstanding : i < p /\ p <= BatchEnd(i)
        /\ \A p, q \in DOMAIN w :
              (BatchOf(p) < BatchOf(q) /\ w[q] # "idle") => w[p] = "done"
        /\ \A p, q \in Outstanding : BatchOf(p) = BatchOf(q)
        /\ pc = "spawn" => \A p \in DOMAIN w :
              (p > i + j /\ p <= BatchEnd(i)) => w[p] = "idle"

\* C2 witness: an attempt of the second batch is in flight (the first batch
\* has drained).
C2_Witness ==
    /\ bs >= 2
    /\ \E p \in InFlight : BatchOf(p) = 1
    /\ \A q \in DOMAIN w : BatchOf(q) = 0 => w[q] = "done"

\* C3: with a fixed oracle, the set of addresses returned equals the set of
\* input addresses the oracle reports reachable, whatever the batch size and
\* the interleaving.
C3_ReturnsReachableSet ==
    ret.done =>
        Range(ret.hosts) = {a \in Range(candidates) : oracle[a]}

\* C3 witness: a run of more than one batch returned, with a reachable and
\* an unreachable address in the input.
C3_Witness ==
    /\ ret.done
    /\ NumIps > bs
    /\ \E a, b \in Range(candidates) : oracle[a] /\ ~oracle[b]

\* the goroutines between mu.Lock() and mu.Unlock()
InCritical == {p \in DOMAIN w : w[p] \in {"locked", "read", "written"}}

\* C4: at most one goroutine at a time is between mu.Lock and mu.Unlock, and
\* no append is lost: at return the result holds exactly one entry for every
\* attempt that succeeded.
C4_MutexAndNoLostAppend ==
    /\ Cardinality(InCritical) <= 1
    /\ \A p \in InCritical : mu = p
    /\ ret.done =>
          /\ Len(ret.hosts) = Cardinality({p \in DOMAIN w : DialOk(p)})
          /\ \A a \in Range(candidates) :
                Count(a, ret.hosts) =
                    Cardinality({p \in DOMAIN w : candidates[p] = a /\ DialOk(p)})

\* C4 witness: one goroutine is in the middle of its append while another,
\* connected, waits for the lock.
C4_Witness ==
    \E p, q \in DOMAIN w : w[p] = "read" /\ w[q] = "connected"

\* C5: called with batch size 0 or a negative value other than -1, the call
\* fails and no probe attempt is ever started.
C5_InvalidBatchSizeNoAttempt ==
    (Called /\ (batchSize = 0 \/ (batchSize < 0 /\ batchSize # -1))) =>
        /\ pc \in {"check", "fatal"}
        /\ ~ret.done
        /\ \A p \in DOMAIN w : w[p] = "idle" /\ dials[p] = 0

\* C5 witness: the call has failed on batch size 0 with addresses to probe.
C5_Witness ==
    /\ pc = "fatal"
    /\ batchSize = 0
    /\ NumIps > 0

\* C6: every position of the input receives exactly one probe attempt: none
\* is attempted twice at any time, and at return none was skipped.
C6_ExactlyOneAttemptEach ==
    /\ \A p \in DOMAIN dials : dials[p] <= 1
    /\ ret.done => \A p \in DOMAIN dials : dials[p] = 1

\* C6 witness: the call returned after a last, shorter batch, with a failed
\* attempt in the run.
C6_Witness ==
    /\ ret.done
    /\ NumIps > bs
    /\ NumIps % bs # 0
    /\ \E p \in DOMAIN w : ~DialOk(p)

\* C7: once the batch size is accepted the call never fails: it returns the
\* accumulated list with a nil error, whatever attempts failed.
C7_NoErrorAfterAcceptedBatchSize ==
    (Called /\ ~(batchSize <= 0 /\ batchSize # -1)) =>
        /\ pc # "fatal"
        /\ pc = "returned" =>
              /\ ret.done
              /\ ret.err = "nil"
              /\ ret.hosts = talosHosts

\* C7 witness: every attempt failed and the call returned the empty list.
C7_Witness ==
    /\ ret.done
    /\ NumIps >= 2
    /\ \A p \in DOMAIN w : ~DialOk(p)
    /\ ret.hosts = <<>>

\* C8 as stated: the list the prober returns has no duplicate entries, for
\* every candidate sequence the enumerator can produce.
C8_NoDuplicatesAsStated ==
    ret.done => NoDup(ret.hosts)

\* C8 amended: the list the prober returns has no duplicate entries when the
\* candidate sequence has none, as is the case for every single range
\* (IpsFromCIDR); a reachable address that a concatenation of ranges repeats
\* is returned once per occurrence.
C8_NoDuplicatesFromDistinctInput ==
    ret.done =>
        /\ (fn = "IpsFromCIDR" \/ NoDup(candidates)) => NoDup(ret.hosts)
        /\ \A a \in Range(candidates) :
              oracle[a] => Count(a, ret.hosts) = Count(a, candidates)

\* C8 witness: the result of a list of two ranges without a common address,
\* with at least two reachable addresses.
C8_Witness ==
    /\ ret.done
    /\ fn = "IpsFromCidrs"
    /\ Len(cidrs) = 2
    /\ NoDup(candidates)
    /\ Len(ret.hosts) >= 2

----------------------------------------------------------------------------
(* Properties of the enumerator.  The expected output is stated on the     *)
(* numeric value of the addresses, not with the operators the enumeration  *)
(* uses.                                                                   *)

\* the number a byte sequence denotes, most significant byte first
RECURSIVE ToNum(_)
ToNum(a) ==
    IF a = <<>> THEN 0
    ELSE ToNum(SubSeq(a, 1, Len(a) - 1)) * ByteMod + a[Len(a)]

FromNum(x, len) ==
    [k \in 1..len |-> (x \div Pow2(ByteBits * (len - k))) % ByteMod]

\* number of addresses of a range, and the number of its first address
RangeSize(c) == Pow2(BitLen(c) - c.n)
RangeFirst(c) == ToNum(c.ip) - (ToNum(c.ip) % RangeSize(c))

\* the text of the address with number x in the family of range c: dotted
\* for an IPv4 address, also when it is written v4-mapped in IPv6 notation
AddrText(c, x) ==
    LET a == FromNum(x, Len(c.ip))
    IN  IF c.fam = "v4" THEN [fam |-> "v4", b |-> a]
        ELSE IF SubSeq(a, 1, Len(v4InV6Prefix)) = v4InV6Prefix
             THEN [fam |-> "v4", b |-> SubSeq(a, Len(v4InV6Prefix) + 1, Len(a))]
             ELSE [fam |-> "v6", b |-> a]

\* the range is a range of IPv4 addresses (given dotted or v4-mapped)
IsIPv4Range(c) == AddrText(c, RangeFirst(c)).fam = "v4"

\* the enumerator was given one well-formed range, TheRange, and has returned
TheRange == cidrs[1]
ReturnedSingle ==
    /\ pc = "enumDone"
    /\ Len(cidrs) = 1
    /\ TheRange.fam # "bad" /\ TheRange.n >= 0 /\ TheRange.n <= BitLen(TheRange)

\* C9: for an IPv4 range with more than two addresses the enumerator returns
\* exactly the addresses strictly between the first and the last address of
\* the range, each once, in ascending order.
C9_InteriorOfIPv4Range ==
    (ReturnedSingle /\ IsIPv4Range(TheRange) /\ RangeSize(TheRange) > 2) =>
        candidates =
            [k \in 1..(RangeSize(TheRange) - 2) |->
                AddrText(TheRange, RangeFirst(TheRange) + k)]

\* C9 witness: the result of a dotted IPv4 range that spans more than one
\* value of the second-last byte and does not start at the zero address.
C9_Witness ==
    /\ ReturnedSingle
    /\ TheRange.fam = "v4"
    /\ RangeSize(TheRange) > ByteMod
    /\ RangeFirst(TheRange) > 0
    /\ Len(candidates) = RangeSize(TheRange) - 2

IsRange(c) == c.fam # "bad" /\ c.n >= 0 /\ c.n <= BitLen(c)

\* what a range yields on its own: every address in ascending order, without
\* the first and the last if it is an IPv4 range of more than two addresses
RangeResult(c) ==
    LET all == [k \in 1..RangeSize(c) |-> AddrText(c, RangeFirst(c) + k - 1)]
    IN  IF IsIPv4Range(c) /\ RangeSize(c) > 2
        THEN SubSeq(all, 2, RangeSize(c) - 1)
        ELSE all

RECURSIVE ConcatResults(_)
ConcatResults(l) ==
    IF l = <<>> THEN <<>>
    ELSE RangeResult(Head(l)) \o ConcatResults(Tail(l))

\* C11: IpsFromCidrs on a comma-joined list returns the concatenation, in
\* input order, of what each range yields on its own, with boundary
\* exclusion per range and no removal of duplicates across ranges; if any
\* range of the list is malformed the call fails and returns no addresses.
C11_ConcatenationOrError ==
    (fn = "IpsFromCidrs" /\ pc \in {"enumDone", "enumErr"}) =>
        IF \A k \in 1..Len(cidrs) : IsRange(cidrs[k])
        THEN pc = "enumDone" /\ candidates = ConcatResults(cidrs)
        ELSE pc = "enumErr" /\ candidates = Nil

\* C11 witness: the result of a list of two ranges, the first filtered and
\* the second not, where the second repeats an address the first excluded.
C11_Witness ==
    /\ fn = "IpsFromCidrs"
    /\ pc = "enumDone"
    /\ Len(cidrs) = 2
    /\ RangeSize(cidrs[1]) > 2 /\ IsIPv4Range(cidrs[1])
    /\ RangeSize(cidrs[2]) = 2 /\ IsIPv4Range(cidrs[2])
    /\ Len(candidates) = RangeSize(cidrs[1])
    /\ candidates[Len(candidates)] \in Range(SubSeq(candidates, 1, Len(candidates) - 1))

----------------------------------------------------------------------------
(* main after dialTalosHosts: talos.GetMembers, the reconciliation loop    *)
(* and the talos.WorkerJoin loop                                           *)

MaxReach == 3
MaxMembers == 2

\* host and member address texts: two dotted IPv4 addresses, the first of
\* them written v4-mapped in IPv6 notation, an IPv6 address, text that is no
\* address, and the empty string
TextA == [fam |-> "v4", b |-> [k \in 1..IPv4len |-> 0]]
TextB == [fam |-> "v4", b |-> [k \in 1..IPv4len |-> IF k = IPv4len THEN 1 ELSE 0]]
TextMappedA == [fam |-> "v6", b |-> v4InV6Prefix \o TextA.b]
TextV6 == [fam |-> "v6", b |-> [k \in 1..IPv6len |-> 0]]
NotAnIP == [fam |-> "bad", b |-> Nil]
EmptyText == [fam |-> "empty", b |-> Nil]

\* net.ParseIP: the 16-byte form of the address (v4-mapped for a dotted
\* address), nil for text that is no address
ParseIP(t) ==
    IF t.fam = "v4" /\ Len(t.b) = IPv4len THEN v4InV6Prefix \o t.b
    ELSE IF t.fam = "v6" /\ Len(t.b) = IPv6len THEN t.b
    ELSE Nil

\* ip := net.ParseIP(s); ip != nil && ip.To4() != nil
ValidIPv4(t) ==
    LET parsed == ParseIP(t)
    IN  ~(parsed = Nil \/ To4(parsed) = Nil)

\* fault variant of extractInternalIP: the first address that parses at all
\* is taken, without the To4 test
extractInternalIPAnyIP(addresses) ==
    LET ok == {k \in 1..Len(addresses) : ParseIP(addresses[k]) # Nil}
    IN  IF ok # {}
        THEN addresses[CHOOSE k \in ok : \A l \in ok : k <= l]
        ELSE IF Len(addresses) > 0 THEN addresses[1]
        ELSE EmptyText

\* extractInternalIP: the first address that is IPv4, else the first
\* address, else the empty string
extractInternalIP(addresses) ==
    LET v4 == {k \in 1..Len(addresses) : ValidIPv4(addresses[k])}
    IN  IF v4 # {}
        THEN addresses[CHOOSE k \in v4 : \A l \in v4 : k <= l]
        ELSE IF Len(addresses) > 0 THEN addresses[1]
        ELSE EmptyText

\* parseMembers: a member record built from the addresses talosctl reports
Member(addresses) ==
    [Addresses |-> addresses, InternalIP |-> extractInternalIP(addresses)]

ReachTexts == {TextA, TextB, TextMappedA, TextV6, NotAnIP}
ReachLists == {<<>>} \cup SeqsUpTo(ReachTexts, MaxReach)

AddressLists ==
    {<<>>, <<TextA>>, <<TextV6, TextA>>, <<TextA, TextB>>, <<TextV6>>}
MemberLists ==
    {<<>>} \cup SeqsUpTo({Member(l) : l \in AddressLists}, MaxMembers)

\* fault variant of AlreadyIn: only the entry added last is compared
AlreadyLast(acc, host) == acc # <<>> /\ acc[Len(acc)] = host

\* slices.Contains(newMemberIps, talosHost)
AlreadyIn(acc, host) == host \in Range(acc)

\* fault variant of IsExistingMember: any address of a member matches
IsExistingMemberAnyAddress(host, mem) ==
    \E k \in 1..Len(mem) : host \in Range(mem[k].Addresses)

\* for _, member := range members { if member.InternalIP == talosHost ... }
IsExistingMember(host, mem) ==
    \E k \in 1..Len(mem) : mem[k].InternalIP = host

\* the body of the reconciliation loop for one talosHost
ReconcileStep(acc, host, mem) ==
    IF AlreadyIn(acc, host) THEN acc
    ELSE IF ~ValidIPv4(host) THEN acc
    ELSE IF ~IsExistingMember(host, mem) THEN Append(acc, host)
    ELSE acc

\* fault variant of ReconcileDone: the last entry is not visited
ReconcileDoneEarly(list, k) == k >= Len(list)

\* for _, talosHost := range talosHostsInCidr: the range is exhausted
ReconcileDone(list, k) == k > Len(list)

RECURSIVE ReconcileLoop(_, _, _, _)
ReconcileLoop(acc, list, k, mem) ==
    IF ReconcileDone(list, k) THEN acc
    ELSE ReconcileLoop(ReconcileStep(acc, list[k], mem), list, k + 1, mem)

\* var newMemberIps []string, and the loop over talosHostsInCidr
ReconcileAll(list, mem) == ReconcileLoop(<<>>, list, 1, mem)

\* fault variant of FetchFailed: main goes on after a failed fetch
FetchFailedGoesOn == "fetched"

\* log.Println("failed to get members:", err); return
FetchFailed == "exit"

\* members, err := talos.GetMembers(...)
GetMembers ==
    /\ pc = "returned"
    /\ \/ /\ members' = [fetched |-> TRUE, err |-> TRUE, list |-> Nil]
          /\ pc' = FetchFailed
       \/ /\ \E l \in MemberLists :
                members' = [fetched |-> TRUE, err |-> FALSE, list |-> l]
          /\ pc' = "fetched"
    /\ UNCHANGED <<newMemberIps, joins, again>>
    /\ UNCHANGED enumVars
    /\ UNCHANGED dialVars

\* the reconciliation loop, and the return when there is nothing to join
Reconcile ==
    /\ pc = "fetched"
    /\ newMemberIps' = ReconcileAll(ret.hosts, members.list)
    /\ pc' = IF Len(newMemberIps') = 0 THEN "exit" ELSE "join"
    /\ UNCHANGED <<members, joins, again>>
    /\ UNCHANGED enumVars
    /\ UNCHANGED dialVars

\* fault variant of JoinGoesOn: the loop ends at the first failed join
JoinGoesOnIfOk(ok) == ok

\* if err != nil { log.Println("failed to join worker:", err) }: the loop
\* goes on whatever the outcome
JoinGoesOn(ok) == TRUE

\* one iteration of for _, ip := range newMemberIps: talos.WorkerJoin(ip)
WorkerJoin ==
    /\ pc = "join"
    /\ \E ok \in BOOLEAN :
          /\ joins' = Append(joins, [ip |-> newMemberIps[Len(joins) + 1],
                                     ok |-> ok])
          /\ pc' = IF Len(joins') < Len(newMemberIps) /\ JoinGoesOn(ok)
                   THEN "join" ELSE "exit"
    /\ UNCHANGED <<members, newMemberIps, again>>
    /\ UNCHANGED enumVars
    /\ UNCHANGED dialVars

\* the reconciliation loop applied to its own output with the same members
ReconcileAgain ==
    /\ pc \in {"join", "exit"}
    /\ members.fetched /\ ~members.err
    /\ ~again.done
    /\ again' = [done |-> TRUE,
                 out |-> ReconcileAll(newMemberIps, members.list)]
    /\ UNCHANGED <<members, newMemberIps, joins, pc>>
    /\ UNCHANGED enumVars
    /\ UNCHANGED dialVars

\* main when dialTalosHosts has returned the list talosHostsInCidr; the
\* locals of the calls that returned are not used again
InitMain ==
    /\ fn = "IpsFromCIDR" /\ cidrs = <<>>
    /\ ci = 1 /\ ipnet = NoNet /\ ip = Nil /\ ips = <<>> /\ allIps = <<>>
    /\ batchSize = DefaultSentinel /\ bs = DefaultBatchSize
    /\ oracle = <<>> /\ i = 0 /\ j = 0 /\ wg = 0 /\ mu = 0
    /\ w = <<>> /\ loc = <<>> /\ dials = <<>>
    /\ \E l \in ReachLists :
          /\ candidates = l
          /\ talosHosts = l
          /\ ret = [done |-> TRUE, hosts |-> l, err |-> "nil"]
    /\ pc = "returned"
    /\ MainIdle

MainNext == GetMembers \/ Reconcile \/ WorkerJoin

SpecMain == InitMain /\ [][MainNext]_vars

ReconcileNext == GetMembers \/ Reconcile \/ ReconcileAgain

SpecReconcile == InitMain /\ [][ReconcileNext]_vars

----------------------------------------------------------------------------
(* Properties of the reconciliation and of the join loop *)

\* the reconciliation loop has run
Reconciled == members.fetched /\ ~members.err /\ pc \in {"join", "exit"}

\* the text denotes an IPv4 address, dotted or v4-mapped
IsIPv4Text(t) ==
    \/ t.fam = "v4"
    \/ t.fam = "v6" /\ SubSeq(t.b, 1, Len(v4InV6Prefix)) = v4InV6Prefix

InternalIPs == {members.list[m].InternalIP : m \in 1..Len(members.list)}

\* the positions of the reachable list that hold the first occurrence of an
\* IPv4 address that is no member's InternalIP
Kept ==
    {k \in 1..Len(ret.hosts) :
        /\ \A l \in 1..(k - 1) : ret.hosts[l] # ret.hosts[k]
        /\ IsIPv4Text(ret.hosts[k])
        /\ ret.hosts[k] \notin InternalIPs}

\* the subsequence of list at the positions of K, from position k on
RECURSIVE Pick(_, _, _)
Pick(list, K, k) ==
    IF k > Len(list) THEN <<>>
    ELSE (IF k \in K THEN <<list[k]>> ELSE <<>>) \o Pick(list, K, k + 1)

\* C12: the reconciliation is idempotent: fed its own output as the
\* reachable list, with the same members, it returns that same sequence.
C12_ReconcileIdempotent ==
    again.done => again.out = newMemberIps

\* C12 witness: the second pass has run on an output of two addresses that
\* the first pass obtained by dropping an entry of the reachable list.
C12_Witness ==
    /\ again.done
    /\ Len(newMemberIps) = 2
    /\ Len(ret.hosts) > 2

\* C13: the unjoined list is exactly the order-preserving subsequence of the
\* reachable list made of the first occurrence of each address that parses
\* as IPv4 and equals no member's InternalIP: members, entries that are not
\* IPv4 and repeats are left out wherever they stand, and nothing else is.
C13_UnjoinedIsKeptSubsequence ==
    Reconciled => newMemberIps = Pick(ret.hosts, Kept, 1)

\* C13 witness: from a reachable list that holds a member's InternalIP, an
\* entry that is no IPv4 address and a repeat, one address is left to join.
C13_Witness ==
    /\ Reconciled
    /\ \E k \in 1..Len(ret.hosts) : ret.hosts[k] \in InternalIPs
    /\ \E k \in 1..Len(ret.hosts) : ~IsIPv4Text(ret.hosts[k])
    /\ Len(newMemberIps) = 1
    /\ newMemberIps[1] = ret.hosts[Len(ret.hosts)]

\* C14: a reachable IPv4 address is left out of the unjoined list if and
\* only if it equals the InternalIP of at least one member: an address that
\* only stands elsewhere in a member's Addresses stays, and an address that
\* several members match is left out (and one that stays, stays once).
C14_MatchOnInternalIPOnly ==
    Reconciled =>
        \A h \in Range(ret.hosts) :
            IsIPv4Text(h) =>
                /\ (h \notin Range(newMemberIps)) <=> (h \in InternalIPs)
                /\ Count(h, newMemberIps) <= 1

\* C14 witness: two members have the InternalIP TextA, one of them also has
\* the address TextB; both addresses were reachable, TextA is left out and
\* TextB stays.
C14_Witness ==
    /\ Reconciled
    /\ Len(members.list) = 2
    /\ \A m \in 1..2 : members.list[m].InternalIP = TextA
    /\ \E m \in 1..2 : TextB \in Range(members.list[m].Addresses)
    /\ TextA \in Range(ret.hosts)
    /\ newMemberIps = <<TextB>>

\* C19: if fetching the members fails, talos.WorkerJoin is never called,
\* however many hosts were found reachable.
C19_NoJoinAfterFailedFetch ==
    members.err => joins = <<>>

\* C19 witness: the fetch failed with two IPv4 hosts in the reachable list.
C19_Witness ==
    /\ members.err
    /\ {TextA, TextB} \subseteq Range(ret.hosts)

\* C20: after a successful fetch every address of the unjoined list gets
\* exactly one join attempt, in list order, and only those do: a failed join
\* is not retried and does not keep later addresses from being attempted,
\* and no member's InternalIP and no address that was not found reachable
\* is joined.
C20_JoinEachUnjoinedOnce ==
    /\ joins # <<>> => Reconciled
    /\ Reconciled =>
          /\ Len(joins) <= Len(newMemberIps)
          /\ \A k \in 1..Len(joins) : joins[k].ip = newMemberIps[k]
          /\ NoDup([k \in 1..Len(joins) |-> joins[k].ip])
          /\ \A k \in 1..Len(joins) :
                joins[k].ip \in Range(ret.hosts) /\ joins[k].ip \notin InternalIPs
          /\ pc = "exit" => Len(joins) = Len(newMemberIps)

\* C20 witness: main ended after two join attempts, the first of which
\* failed, with a member among the reachable hosts.
C20_Witness ==
    /\ pc = "exit"
    /\ Len(joins) = 2
    /\ ~joins[1].ok
    /\ \E h \in Range(ret.hosts) : h \in InternalIPs

----------------------------------------------------------------------------
(* The batch size check and the default batch size *)

\* C15: an invalid batch size is reported to the caller of dialTalosHosts as
\* the outcome of the call: the call returns, with an error.
C15_InvalidBatchSizeReturnsError ==
    (Called /\ InvalidBatchSize(batchSize) /\ pc # "check") =>
        /\ pc = "returned"
        /\ ret.done
        /\ ret.err \notin {"none", "nil"}

\* C16: with the sentinel -1 the call behaves as with batch size 100: it is
\* accepted, the batches are the slices of 100 addresses, at most 100
\* attempts are outstanding, and the reachable set is returned.
C16_SentinelIsDefaultBatchSize ==
    (Called /\ pc # "check" /\ batchSize \in {DefaultSentinel, DefaultBatchSize}) =>
        /\ pc # "fatal"
        /\ bs = DefaultBatchSize
        /\ BatchEnd(i) = Min(i + DefaultBatchSize, NumIps)
        /\ Cardinality(Outstanding) <= DefaultBatchSize
        /\ \A p \in Outstanding : i < p /\ p <= Min(i + DefaultBatchSize, NumIps)
        /\ ret.done =>
              /\ ret.err = "nil"
              /\ Range(ret.hosts) = {a \in Range(candidates) : oracle[a]}

\* C16 witness: called with the sentinel, every address of a list of more
\* than one is being dialled at once.
C16_Witness ==
    /\ batchSize = DefaultSentinel
    /\ NumIps >= 2
    /\ Cardinality(InFlight) = NumIps

----------------------------------------------------------------------------
(* Termination of the enumeration loop *)

\* C17: for every well-formed range, of any prefix length from 0 to the
\* width, the enumeration loop yields a finite, strictly increasing sequence
\* and ends, also when the increment wraps after the all-ones address: in
\* the loop the addresses collected never repeat and never outnumber the
\* addresses of the range.
C17_LoopYieldsEachAddressOnce ==
    pc = "loop" =>
        /\ Len(ips) <= RangeSize(RangeText)
        /\ NoDup(ips)

----------------------------------------------------------------------------
(* Termination of dialTalosHosts under fair scheduling *)

\* dialTalosHosts called with a list of up to MaxIps addresses, the empty
\* list included (the enumerators never return it)
DialInputs ==
    {[k \in 1..n |-> IF k <= m THEN TextA ELSE TextB] :
        n \in 0..MaxIps, m \in 0..MaxIps}

InitDial ==
    /\ fn = "IpsFromCIDR" /\ cidrs = <<>>
    /\ ci = 1 /\ ipnet = NoNet /\ ip = Nil /\ ips = <<>> /\ allIps = <<>>
    /\ candidates \in DialInputs
    /\ pc = "enumDone"
    /\ DialIdle
    /\ MainIdle

\* the steps of the goroutine started for position p
Worker(p) ==
    /\ p \in DOMAIN w
    /\ \/ Dial(p) \/ DialReturn(p) \/ Lock(p) \/ AppendRead(p)
       \/ AppendWrite(p) \/ Unlock(p) \/ Done(p)

\* the Go scheduler runs every goroutine that can run, and DialAddress
\* returns within its timeout
DialFairness ==
    /\ WF_vars(CallDial \/ CheckBatchSize \/ BatchStart \/ Spawn \/ Wait \/ Return)
    /\ \A p \in 1..MaxIps : WF_vars(Worker(p))

SpecDialFair == InitDial /\ [][DialNext]_vars /\ DialFairness

\* C18: under fair scheduling a call with a valid batch size eventually
\* returns, and returns only when every batch has been started and every
\* attempt has finished; with an empty list it returns the empty result
\* without starting any attempt.
C18_EventuallyReturnsAfterDrain ==
    /\ [](ret.done =>
            /\ \A p \in DOMAIN w : w[p] = "done" /\ dials[p] = 1
            /\ wg = 0
            /\ i >= NumIps
            /\ NumIps = 0 => ret.hosts = <<>>)
    /\ (pc = "check" /\ ~InvalidBatchSize(batchSize)) ~> (pc = "returned")

\* C18 witness: a call has returned after three batches, with a failed
\* attempt among them.
C18_Witness ==
    /\ ret.done
    /\ i > 2 * bs
    /\ \E p \in DOMAIN w : ~DialOk(p)

----------------------------------------------------------------------------
(* The InternalIP of a member *)

MaxAddrs == 3

\* the address lists talosctl can report for one member: up to MaxAddrs
\* texts, each an IPv4 address (dotted or v4-mapped), an IPv6 address or
\* text that is no address
WideAddressLists == {<<>>} \cup SeqsUpTo(ReachTexts, MaxAddrs)

\* talos.GetMembers returns one member, with any list of WideAddressLists
GetOneMember ==
    /\ pc = "returned"
    /\ \E l \in WideAddressLists :
          members' = [fetched |-> TRUE, err |-> FALSE, list |-> <<Member(l)>>]
    /\ pc' = "fetched"
    /\ UNCHANGED <<newMemberIps, joins, again>>
    /\ UNCHANGED enumVars
    /\ UNCHANGED dialVars

\* main with at most one reachable host
InitOneMember ==
    /\ InitMain
    /\ Len(ret.hosts) <= 1

OneMemberNext == GetOneMember \/ Reconcile

SpecOneMember == InitOneMember /\ [][OneMemberNext]_vars

\* C21: a member's InternalIP is the first entry of its Addresses, in list
\* order, that parses as an IPv4 address; with no IPv4 entry it is the first
\* entry, and with no entry at all it is the empty string.
C21_InternalIPIsFirstIPv4 ==
    \A m \in 1..Len(members.list) :
        LET a == members.list[m].Addresses
            r == members.list[m].InternalIP
        IN  /\ a = <<>> => r = EmptyText
            /\ (a # <<>> /\ \A k \in 1..Len(a) : ~IsIPv4Text(a[k])) => r = a[1]
            /\ \A k \in 1..Len(a) :
                  (IsIPv4Text(a[k]) /\ \A l \in 1..(k - 1) : ~IsIPv4Text(a[l]))
                      => r = a[k]

\* C21 witness: the member fetched has an IPv6 address first, then an IPv4
\* address, then another IPv4 address, and its InternalIP is the second
\* entry.
C21_Witness ==
    /\ members.fetched
    /\ Len(members.list) = 1
    /\ LET a == members.list[1].Addresses
       IN  /\ Len(a) = 3
           /\ a[1] = TextV6 /\ IsIPv4Text(a[2]) /\ IsIPv4Text(a[3])
           /\ a[2] # a[3]
           /\ members.list[1].InternalIP = a[2]

====
